---- MODULE Spec2Model ----
\* A model of pkg/python/py_compile.go: the Compiler closure returned by
\* ExternalCompiler, run by two callers that share one Compiler value, against a
\* filesystem of temporary directories and an opaque external compiler process.
EXTENDS Integers, Sequences, FiniteSets, TLC

VARIABLES
  calls,    \* per call: the closure's locals, its named results and what it has done
  fs,       \* the temp root: name of each existing temporary directory -> its tree
  backing,  \* the spare slots of cmdline's backing array, past len(cmdline)
  spare,    \* how many spare slots the caller's cmdline slice has (cap - len)
  compiler  \* the layout the installed external compiler writes

vars == <<calls, fs, backing, spare, compiler>>

\* ---------------------------------------------------------------- bounds
\* wall-clock instants at which a file can be created
MaxClock == 2

Calls == {"a", "b"}
WallClock == 1..MaxClock

\* ---------------------------------------------------------------- strings and slash-paths
Char(s, i) == SubSeq(s, i, i)

HasSuffix(s, suf) ==
  Len(s) >= Len(suf) /\ SubSeq(s, Len(s) - Len(suf) + 1, Len(s)) = suf

HasPrefix(s, pre) ==
  Len(s) >= Len(pre) /\ SubSeq(s, 1, Len(pre)) = pre

RECURSIVE SplitSlash(_)
SplitSlash(s) ==
  IF \A i \in 1..Len(s) : Char(s, i) # "/" THEN <<s>>
  ELSE LET i == CHOOSE k \in 1..Len(s) :
                  Char(s, k) = "/" /\ \A j \in 1..(k - 1) : Char(s, j) # "/"
       IN <<SubSeq(s, 1, i - 1)>> \o SplitSlash(SubSeq(s, i + 1, Len(s)))

RECURSIVE JoinSlash(_)
JoinSlash(comps) ==
  IF comps = <<>> THEN ""
  ELSE IF Len(comps) = 1 THEN comps[1]
  ELSE comps[1] \o "/" \o JoinSlash(Tail(comps))

RECURSIVE CleanComps(_, _, _)
CleanComps(comps, out, rooted) ==
  IF comps = <<>> THEN out
  ELSE LET h == Head(comps)
           t == Tail(comps)
       IN IF h = "" \/ h = "." THEN CleanComps(t, out, rooted)
          ELSE IF h = ".."
            THEN IF out # <<>> /\ out[Len(out)] # ".."
                   THEN CleanComps(t, SubSeq(out, 1, Len(out) - 1), rooted)
                 ELSE IF rooted THEN CleanComps(t, out, rooted)
                 ELSE CleanComps(t, Append(out, ".."), rooted)
          ELSE CleanComps(t, Append(out, h), rooted)

\* path.Clean
Clean(p) ==
  IF p = "" THEN "."
  ELSE LET rooted == Char(p, 1) = "/"
           out == JoinSlash(CleanComps(SplitSlash(p), <<>>, rooted))
       IN IF rooted THEN "/" \o out ELSE IF out = "" THEN "." ELSE out

LastSlash(p) ==
  IF \E i \in 1..Len(p) : Char(p, i) = "/"
    THEN CHOOSE i \in 1..Len(p) :
           Char(p, i) = "/" /\ \A j \in (i + 1)..Len(p) : Char(p, j) # "/"
    ELSE 0

\* path.Dir
Dir(p) == Clean(SubSeq(p, 1, LastSlash(p)))

RECURSIVE StripTrailingSlashes(_)
StripTrailingSlashes(p) ==
  IF Len(p) > 0 /\ Char(p, Len(p)) = "/"
    THEN StripTrailingSlashes(SubSeq(p, 1, Len(p) - 1))
    ELSE p

\* path.Base
Base(p) ==
  IF p = "" THEN "."
  ELSE LET q == StripTrailingSlashes(p)
           r == SubSeq(q, LastSlash(q) + 1, Len(q))
       IN IF r = "" THEN "/" ELSE r

\* path.Join of two elements
Join(a, b) ==
  IF a = "" /\ b = "" THEN ""
  ELSE IF a = "" THEN Clean(b)
  ELSE IF b = "" THEN Clean(a)
  ELSE Clean(a \o "/" \o b)

\* ---------------------------------------------------------------- maps
Put(m, k, v) == [x \in DOMAIN m \cup {k} |-> IF x = k THEN v ELSE m[x]]
Drop(m, k) == [x \in DOMAIN m \ {k} |-> m[x]]
EmptyMap == <<>>

\* a nil map, slice or reader is <<>>; a non-nil one is <<value>>
Nil == <<>>
Some(v) == <<v>>

\* ---------------------------------------------------------------- time.Time
\* A time.Time is a count of days since 1 January of year 1, a second of the day and
\* a nanosecond; the zero Time is the first instant of year 1.
ZeroTime == [day |-> 0, sec |-> 0, nsec |-> 0]
IsZero(t) == t.day = 0 /\ t.sec = 0 /\ t.nsec = 0
\* Time.Unix: whole seconds since 1 January 1970, which is day 719162
Unix(t) == (t.day - 719162) * 86400 + t.sec
UnixEpoch == [day |-> 719162, sec |-> 0, nsec |-> 0]
\* the wall clock at instant n
NowTime(n) == [day |-> 739000, sec |-> n, nsec |-> 0]

\* ---------------------------------------------------------------- inputs
\* A fsutil.FileReference as the closure uses it: FullName(), Name(), ModTime()
\* and the bytes Open() yields.
FileRef(full, content, mod) == [FullName |-> full, Content |-> content, ModTime |-> mod]
FullName(in) == in.FullName
Name(in) == Base(in.FullName)
ModTime(in) == in.ModTime

SourceTime == [day |-> 738000, sec |-> 7, nsec |-> 0]
Sources ==
  { FileRef("pkg/mod.py", "x=1", SourceTime), FileRef("top.py", "y=2", SourceTime) }

ClampTimes ==
  { ZeroTime, UnixEpoch, [day |-> 719163, sec |-> 1, nsec |-> 5] }

\* ExternalCompiler("python3", "-m", "compileall"): exe and the fixed arguments
Exe == "/usr/bin/python3"
FixedArgs == <<"-m", "compileall">>
\* os.Environ()
Environ == <<"PATH=/usr/bin">>
\* the three arguments each call appends: -p, the prepend directory, the file
AppendLen == 3

\* the names os.MkdirTemp("", "ocibuild-pycompile.") can draw
TmpNames == { "ocibuild-pycompile.1", "ocibuild-pycompile.2" }

\* ---------------------------------------------------------------- the workspace filesystem
\* By names the call whose step or process created the entry
File(content, t, by) ==
  [IsDir |-> FALSE, Content |-> content, Mode |-> "-rw-r--r--", ATime |-> t, MTime |-> t,
   By |-> by]
Directory(t, by) ==
  [IsDir |-> TRUE, Content |-> "", Mode |-> "drwxr-xr-x", ATime |-> t, MTime |-> t,
   By |-> by]

\* a directory os.MkdirTemp has just made for call by: its root and nothing else
Workspace(by) == [p \in {"."} |-> [IsDir |-> TRUE, By |-> by]]

\* fs.DirEntry.Info() of the entry at slash-path p
Info(p, e) ==
  [Name |-> Base(p), IsDir |-> e.IsDir, Size |-> Len(e.Content), Mode |-> e.Mode,
   ModTime |-> e.MTime]

\* byte order of the characters that occur in names
Alphabet == "-./0123456789_abcdefghijklmnopqrstuvwxyz"
Rank(ch) == CHOOSE i \in 1..Len(Alphabet) : Char(Alphabet, i) = ch

RECURSIVE StrLess(_, _)
StrLess(a, b) ==
  IF b = "" THEN FALSE
  ELSE IF a = "" THEN TRUE
  ELSE IF Char(a, 1) = Char(b, 1)
    THEN StrLess(SubSeq(a, 2, Len(a)), SubSeq(b, 2, Len(b)))
    ELSE Rank(Char(a, 1)) < Rank(Char(b, 1))

RECURSIVE CompsLess(_, _)
CompsLess(a, b) ==
  IF b = <<>> THEN FALSE
  ELSE IF a = <<>> THEN TRUE
  ELSE IF Head(a) = Head(b) THEN CompsLess(Tail(a), Tail(b))
  ELSE StrLess(Head(a), Head(b))

\* the order in which fs.WalkDir reaches two entries: a directory before its
\* children, the children of one directory by name
WalkBefore(p, q) == CompsLess(SplitSlash(p), SplitSlash(q))

RECURSIVE WalkOrder(_)
WalkOrder(paths) ==
  IF paths = {} THEN <<>>
  ELSE LET first == CHOOSE p \in paths : \A q \in paths \ {p} : WalkBefore(p, q)
       IN <<first>> \o WalkOrder(paths \ {first})

\* the entries fs.WalkDir(dirFS, ".") reaches, in its order: the root first
WalkList(tree) == <<".">> \o WalkOrder(DOMAIN tree \ {"."})

\* ---------------------------------------------------------------- the external process
\* the value of variable key in an environment, "" when unset (the last entry wins)
Getenv(env, key) ==
  LET hits == { i \in 1..Len(env) : HasPrefix(env[i], key \o "=") }
  IN IF hits = {} THEN ""
     ELSE LET i == CHOOSE k \in hits : \A j \in hits : j <= k
          IN SubSeq(env[i], Len(key) + 2, Len(env[i]))

\* the environment the process runs in: os.Environ() when cmd.Env is nil
ProcessEnv(cmd) == IF cmd.Env = Nil THEN Environ ELSE cmd.Env[1]

Stem(file) == IF HasSuffix(file, ".py") THEN SubSeq(file, 1, Len(file) - 3) ELSE file

\* what the compiler writes into a .pyc: a stamp (SOURCE_DATE_EPOCH when set, else
\* the source file's modification time), the -p directory joined with the file
\* name, and the compiled source
PycContent(cmd, file, src) ==
  LET epoch == Getenv(ProcessEnv(cmd), "SOURCE_DATE_EPOCH")
      stamp == IF epoch # "" THEN epoch ELSE ToString(Unix(src.MTime))
      prepend == cmd.Args[Len(cmd.Args) - 1]
  IN "pyc[" \o stamp \o "|" \o Join(prepend, file) \o "|" \o src.Content \o "]"

\* layouts an external compiler may leave behind: the .pyc in a __pycache__
\* directory, or the .pyc beside the source together with a log file
Behaviours == {"pep3147", "legacy"}

\* the tree of cmd.Dir after the process of call c ran with layout b at wall-clock
\* instant now; a file argument that is not in cmd.Dir compiles to nothing
ProcessOutput(b, tree, cmd, now, c) ==
  LET file == cmd.Args[Len(cmd.Args)]
      t == NowTime(now)
  IN IF file \notin DOMAIN tree \/ tree[file].IsDir THEN tree
     ELSE LET pyc == File(PycContent(cmd, file, tree[file]), t, c)
          IN CASE b = "pep3147" ->
                    Put(Put(tree, "__pycache__", Directory(t, c)),
                        "__pycache__/" \o Stem(file) \o ".cpython-39.pyc", pyc)
               [] b = "legacy" ->
                    Put(Put(tree, file \o "c", pyc), "compile.log", File("ok", t, c))

\* ---------------------------------------------------------------- the closure
Phases == <<"setup", "invocation", "collection", "teardown">>

\* the locals of one call before its first statement; phases, launches, removals
\* and failures record what the call has done so far and which steps failed
Frame(in, clampTime) ==
  [pc |-> "mkdir", in |-> in, clampTime |-> clampTime,
   compiled |-> Nil, err |-> "",
   tmpdir |-> "", inBytes |-> "", shared |-> FALSE, tail |-> <<>>, k |-> 0,
   cmd |-> [Args |-> <<>>, Dir |-> "", Env |-> Nil],
   vfs |-> EmptyMap, walk |-> <<>>,
   phases |-> <<>>, launches |-> 0, removals |-> 0, failures |-> <<>>]

\* a caller that makes no call
Idle == [Frame(CHOOSE in \in Sources : TRUE, ZeroTime) EXCEPT !.pc = "idle"]

\* the call begins one of its phases
Enter(cs, phase) == [cs EXCEPT !.phases = Append(@, phase)]

\* a deferred error that replaces whatever error is pending
maybeSetErrLast(err, _err) == IF _err # "" THEN _err ELSE err

\* maybeSetErr, lines 39-43: the error is kept only when no error is pending
maybeSetErr(err, _err) == IF _err # "" /\ err = "" THEN _err ELSE err

\* a return statement reached after the defer was registered: the named results
\* are set and the deferred removal is still to run
Return(cs, compiled, err) ==
  [cs EXCEPT !.compiled = compiled, !.err = err, !.pc = "return"]

\* a step failed with error e
Failed(cs, e) == [cs EXCEPT !.failures = Append(@, e)]

\* the call has returned: only its results, its inputs and its record are left
Returned(cs) ==
  [Frame(cs.in, cs.clampTime) EXCEPT
     !.pc = "done", !.compiled = cs.compiled, !.err = cs.err, !.tmpdir = cs.tmpdir,
     !.phases = cs.phases, !.launches = cs.launches, !.removals = cs.removals,
     !.failures = cs.failures]

\* a body that cleans up only on its successful path: a failed step returns at once
FailLeak(cs, err) == Returned([Failed(cs, err) EXCEPT !.compiled = Nil, !.err = err])

\* a failed step of the body: return nil, err
Fail(cs, err) == Return(Failed(cs, err), Nil, err)

\* a fixed directory name, taken whether or not it exists
AnyName(f) == TmpNames

\* the names os.MkdirTemp may create: those no existing directory has
FreshNames(f) == TmpNames \ DOMAIN f

\* the three arguments of lines 79-80
Appended(in) == <<"-p", Join("/", Dir(FullName(in))), Name(in)>>

\* an environment that clamps the time and leaves the hash seed alone
CmdEnvNoSeed(clampTime) ==
  IF ~IsZero(clampTime)
    THEN Some(Environ \o <<"SOURCE_DATE_EPOCH=" \o ToString(Unix(clampTime))>>)
    ELSE Nil

\* lines 83-87
CmdEnv(clampTime) ==
  IF ~IsZero(clampTime)
    THEN Some(Environ \o <<"PYTHONHASHSEED=0",
                           "SOURCE_DATE_EPOCH=" \o ToString(Unix(clampTime))>>)
    ELSE Nil

\* a filter that keeps the suffixed entries only
SkippedBySuffix(p, isDir) == p = "." \/ ~HasSuffix(p, ".pyc")

\* the walk callback's filter, lines 102-107: TRUE when the entry is skipped
Skipped(p, isDir) == p = "." \/ (~HasSuffix(p, ".pyc") /\ ~isDir)

\* a name made of the virtual directory and the entry's base name
VirtualNameFlat(in, p) == Join(Dir(FullName(in)), Base(p))

\* line 126
VirtualName(in, p) == Join(Dir(FullName(in)), p)

\* lines 127-131
InMemFileReference(info, fullname, content) ==
  [FileInfo |-> info, MFullName |-> fullname, MContent |-> content]

Inputs == { Frame(in, t) : in \in Sources, t \in ClampTimes }

\* two callers share one Compiler value and call it once each, with one ClampTime,
\* on the same source or on two different ones
Init ==
  /\ spare \in {0, AppendLen}
  /\ backing = [i \in 1..AppendLen |-> ""]
  /\ fs = EmptyMap
  /\ compiler \in Behaviours
  /\ \E t \in {ZeroTime, UnixEpoch}, second \in Sources :
       calls = [c \in Calls |->
                 IF c = "a" THEN Frame(FileRef("pkg/mod.py", "x=1", SourceTime), t)
                            ELSE Frame(second, t)]

Set(c, cs) == calls' = [calls EXCEPT ![c] = cs]

\* lines 46-49
MkdirTemp(c) ==
  LET cs == Enter(calls[c], "setup") IN
  /\ calls[c].pc = "mkdir"
  /\ \/ \E n \in FreshNames(fs) :
          /\ fs' = Put(fs, n, Workspace(c))
          /\ Set(c, [cs EXCEPT !.tmpdir = n, !.pc = "open"])
     \/ /\ Set(c, Returned([Failed(cs, "mkdirtemp") EXCEPT
                              !.compiled = Nil, !.err = "mkdirtemp"]))
        /\ UNCHANGED fs
  /\ UNCHANGED <<backing, spare, compiler>>

\* lines 55-58
OpenInput(c) ==
  LET cs == calls[c] IN
  /\ cs.pc = "open"
  /\ \/ Set(c, [cs EXCEPT !.pc = "readall"])
     \/ Set(c, Fail(cs, "open"))
  /\ UNCHANGED <<fs, backing, spare, compiler>>

\* lines 59-63
ReadInput(c) ==
  LET cs == calls[c] IN
  /\ cs.pc = "readall"
  /\ \/ Set(c, [cs EXCEPT !.inBytes = cs.in.Content, !.pc = "close"])
     \/ Set(c, Fail(cs, "readall"))
  /\ UNCHANGED <<fs, backing, spare, compiler>>

\* lines 64-66
CloseInput(c) ==
  LET cs == calls[c] IN
  /\ cs.pc = "close"
  /\ \/ Set(c, [cs EXCEPT !.pc = "write"])
     \/ Set(c, Fail(cs, "close"))
  /\ UNCHANGED <<fs, backing, spare, compiler>>

\* lines 69-72: the file is created in the workspace under the source's base name
WriteFile(c) ==
  LET cs == calls[c]
      base == Base(FullName(cs.in))
  IN
  /\ cs.pc = "write"
  /\ \/ /\ base \notin {".", "..", "/"}
        /\ \E now \in WallClock :
             fs' = [fs EXCEPT ![cs.tmpdir] = Put(@, base, File(cs.inBytes, NowTime(now), c))]
        /\ Set(c, [cs EXCEPT !.pc = "chtimes"])
     \/ /\ Set(c, Fail(cs, "write"))
        /\ UNCHANGED fs
  /\ UNCHANGED <<backing, spare, compiler>>

\* lines 73-75
Chtimes(c) ==
  LET cs == calls[c]
      base == Base(FullName(cs.in))
  IN
  /\ cs.pc = "chtimes"
  /\ \/ /\ fs' = [fs EXCEPT ![cs.tmpdir][base] =
                    [@ EXCEPT !.ATime = ModTime(cs.in), !.MTime = ModTime(cs.in)]]
        /\ Set(c, [cs EXCEPT !.pc = "append"])
     \/ /\ Set(c, Fail(cs, "chtimes"))
        /\ UNCHANGED fs
  /\ UNCHANGED <<backing, spare, compiler>>

\* lines 78-81, the append: with spare capacity the three arguments are stored, one
\* after the other, into the backing array every call shares; without it they go
\* into a fresh array of the call's own
AppendArgs(c) ==
  LET cs == calls[c] IN
  /\ cs.pc = "append"
  /\ \/ /\ spare < AppendLen
        /\ Set(c, [cs EXCEPT !.shared = FALSE, !.tail = Appended(cs.in), !.pc = "command"])
        /\ UNCHANGED backing
     \/ /\ spare >= AppendLen
        /\ backing' = [backing EXCEPT ![cs.k + 1] = Appended(cs.in)[cs.k + 1]]
        /\ Set(c, IF cs.k + 1 = AppendLen
                    THEN [cs EXCEPT !.shared = TRUE, !.k = 0, !.pc = "command"]
                    ELSE [cs EXCEPT !.k = cs.k + 1])
  /\ UNCHANGED <<fs, spare, compiler>>

\* lines 82-87, once the arguments are copied
Configured(cs, args) ==
  [cs EXCEPT !.cmd = [Args |-> args, Dir |-> cs.tmpdir, Env |-> CmdEnv(cs.clampTime)],
             !.k = 0, !.pc = "run"]

\* line 78, the call: exec.Command copies the argument slice, element by element,
\* into cmd.Args after the program name
CommandContext(c) ==
  LET cs == calls[c]
      head == <<Exe>> \o FixedArgs
  IN
  /\ cs.pc = "command"
  /\ \/ /\ ~cs.shared
        /\ Set(c, Configured(cs, head \o cs.tail))
     \/ /\ cs.shared
        /\ LET got == Append(IF cs.k = 0 THEN head ELSE cs.cmd.Args, backing[cs.k + 1])
           IN Set(c, IF cs.k + 1 = AppendLen
                       THEN Configured(cs, got)
                       ELSE [cs EXCEPT !.cmd.Args = got, !.k = cs.k + 1])
  /\ UNCHANGED <<fs, backing, spare, compiler>>

\* a failed run that is tried again
OnRunErrorRetry(cs) == [cs EXCEPT !.pc = "run"]

\* a failed run, lines 88-90
OnRunError(cs) == Fail(cs, "run")

\* line 88: the process is started and runs to completion in cmd.Dir
Run(c) ==
  LET cs == calls[c]
      started == [Enter(cs, "invocation") EXCEPT !.launches = @ + 1]
  IN
  /\ cs.pc = "run"
  /\ \/ /\ \E now \in WallClock :
             fs' = [fs EXCEPT ![cs.cmd.Dir] = ProcessOutput(compiler, @, cs.cmd, now, c)]
        /\ Set(c, [started EXCEPT !.pc = "walkstart"])
     \/ /\ Set(c, OnRunError(started))
        /\ UNCHANGED fs
  /\ UNCHANGED <<backing, spare, compiler>>

\* lines 93-98: the result map is made and fs.WalkDir stats and lists the root
WalkStart(c) ==
  LET cs == calls[c]
      fresh == [Enter(cs, "collection") EXCEPT !.vfs = EmptyMap]
  IN
  /\ cs.pc = "walkstart"
  /\ \/ Set(c, [fresh EXCEPT !.walk = WalkList(fs[cs.tmpdir]), !.pc = "walk"])
     \/ \E e \in {"stat", "readdir"} : Set(c, Fail(fresh, e))
  /\ UNCHANGED <<fs, backing, spare, compiler>>

\* lines 108-131: the entry is added to the result map
Insert(cs, p, e) ==
  LET fullname == VirtualName(cs.in, p)
      content == IF ~e.IsDir THEN e.Content ELSE ""
  IN [cs EXCEPT !.vfs = Put(@, fullname, InMemFileReference(Info(p, e), fullname, content))]

\* lines 98-133: the callback on the next entry of the walk
WalkStep(c) ==
  LET cs == calls[c]
      p == Head(cs.walk)
      e == fs[cs.tmpdir][p]
      next == [cs EXCEPT !.walk = Tail(@)]
  IN
  /\ cs.pc = "walk"
  /\ cs.walk # <<>>
  /\ \/ /\ Skipped(p, e.IsDir)
        /\ Set(c, next)
     \/ /\ ~Skipped(p, e.IsDir)
        /\ \/ Set(c, Fail(cs, "info"))
           \/ /\ ~e.IsDir
              /\ \E op \in {"openfile", "readfile"} : Set(c, Fail(cs, op))
           \/ /\ ~e.IsDir
              /\ Set(c, Insert(next, p, e))
           \/ /\ e.IsDir
              /\ \/ Set(c, Insert(next, p, e))
                 \/ Set(c, Fail(Insert(cs, p, e), "readdir"))
  /\ UNCHANGED <<fs, backing, spare, compiler>>

\* lines 134-137: return vfs, nil
WalkDone(c) ==
  LET cs == calls[c] IN
  /\ cs.pc = "walk"
  /\ cs.walk = <<>>
  /\ Set(c, Return(cs, Some(cs.vfs), ""))
  /\ UNCHANGED <<fs, backing, spare, compiler>>

\* lines 50-52: the deferred function removes the workspace and the call returns
Deferred(c) ==
  LET cs == [Enter(calls[c], "teardown") EXCEPT !.removals = @ + 1] IN
  /\ calls[c].pc = "return"
  /\ \/ /\ fs' = Drop(fs, cs.tmpdir)
        /\ Set(c, Returned([cs EXCEPT !.err = maybeSetErr(cs.err, "")]))
     \/ /\ UNCHANGED fs
        /\ Set(c, Returned([Failed(cs, "removeall") EXCEPT
                              !.err = maybeSetErr(cs.err, "removeall")]))
  /\ UNCHANGED <<backing, spare, compiler>>

Next ==
  \E c \in Calls :
    \/ MkdirTemp(c)
    \/ OpenInput(c)
    \/ ReadInput(c)
    \/ CloseInput(c)
    \/ WriteFile(c)
    \/ Chtimes(c)
    \/ AppendArgs(c)
    \/ CommandContext(c)
    \/ Run(c)
    \/ WalkStart(c)
    \/ WalkStep(c)
    \/ WalkDone(c)
    \/ Deferred(c)

Spec == Init /\ [][Next]_vars

\* one caller calls the Compiler; the other makes no call
InitOne ==
  /\ spare \in {0, AppendLen}
  /\ backing = [i \in 1..AppendLen |-> ""]
  /\ fs = EmptyMap
  /\ compiler \in Behaviours
  /\ \E first \in Inputs : calls = [c \in Calls |-> IF c = "a" THEN first ELSE Idle]

SpecOne == InitOne /\ [][Next]_vars

\* ---------------------------------------------------------------- properties
AllDone == \A c \in Calls : calls[c].pc \in {"done", "idle"}
\* the call has a workspace and has not returned
Live(c) ==
  calls[c].pc \in {"open", "readall", "close", "write", "chtimes", "append", "command",
                   "run", "walkstart", "walk", "return"}
\* the temporary directory call c created still exists
Owns(c) ==
  /\ calls[c].tmpdir \in DOMAIN fs
  /\ fs[calls[c].tmpdir]["."].By = c
\* the call reached a return statement with a result map
HasResult(cs) == cs.pc \in {"return", "done"} /\ cs.compiled # Nil

\* the phase an error comes from
PhaseOf(e) ==
  CASE e \in {"mkdirtemp", "open", "readall", "close", "write", "chtimes"} -> 1
    [] e = "run" -> 2
    [] e \in {"stat", "readdir", "info", "openfile", "readfile"} -> 3
    [] e = "removeall" -> 4

\* the virtual directory and the base name of the two sources, written out
VirtualDir(in) ==
  CASE in.FullName = "pkg/mod.py" -> "pkg"
    [] in.FullName = "top.py" -> ""
BaseName(in) ==
  CASE in.FullName = "pkg/mod.py" -> "mod.py"
    [] in.FullName = "top.py" -> "top.py"
\* the slash-join of the virtual directory with a path relative to the workspace
KeyOf(in, p) == IF VirtualDir(in) = "" THEN p ELSE VirtualDir(in) \o "/" \o p
\* the workspace entries the filter lets through
Kept(tree) ==
  { p \in DOMAIN tree : p # "." /\ (tree[p].IsDir \/ HasSuffix(Base(p), ".pyc")) }

\* C1: a call that created its workspace has attempted the removal of the workspace
\* exactly once when it has returned, whatever step made it return, and never
\* before; a call whose MkdirTemp failed attempts none.
RemovalAttemptedOnce ==
  \A c \in Calls :
    LET cs == calls[c] IN
    /\ cs.pc = "done" /\ cs.tmpdir # "" => cs.removals = 1
    /\ cs.pc = "done" /\ cs.tmpdir = "" => cs.removals = 0
    /\ cs.pc # "done" => cs.removals = 0

RemovalAfterFailures ==
  /\ calls["a"].pc = "done" /\ calls["a"].failures = <<"run">> /\ calls["a"].removals = 1
  /\ calls["b"].pc = "done" /\ calls["b"].failures = <<"readfile">>
  /\ calls["b"].removals = 1

\* C2: the error a call returns is the first failure that occurred, and failures
\* occur in the order setup, invocation, collection, teardown: a removal error is
\* returned only when nothing failed before it, and nil only when nothing failed.
FirstErrorWins ==
  \A c \in Calls :
    LET cs == calls[c] IN
    cs.pc = "done" =>
      /\ cs.err = IF cs.failures = <<>> THEN "" ELSE cs.failures[1]
      /\ \A i, j \in 1..Len(cs.failures) :
           i < j => PhaseOf(cs.failures[i]) < PhaseOf(cs.failures[j])
      /\ cs.err = "removeall" => cs.failures = <<"removeall">>

ProcessAndRemovalFailed ==
  \E c \in Calls :
    /\ calls[c].pc = "done"
    /\ calls[c].failures = <<"run", "removeall">>
    /\ calls[c].err = "run"

\* C3: a call that has returned gave either a result map and a nil error, or a nil
\* map and a non-nil error.
NoPartialSuccess ==
  \A c \in Calls :
    LET cs == calls[c] IN
    cs.pc = "done" =>
      \/ cs.compiled # Nil /\ cs.err = ""
      \/ cs.compiled = Nil /\ cs.err # ""

\* the parts of C4 that concern the workspaces in use and what the walk collects:
\* two calls on different sources never hold the same directory, a workspace holds
\* only what its own call and its own process created, and every entry of a call's
\* result map comes from an entry of its own workspace that its own call created.
WorkspacesApart ==
  calls["a"].in # calls["b"].in =>
    /\ \A c, d \in Calls :
         c # d /\ Live(c) /\ Live(d) => calls[c].tmpdir # calls[d].tmpdir
    /\ \A c \in Calls :
         Live(c) =>
           LET cs == calls[c]
               tree == fs[cs.tmpdir]
           IN /\ \A p \in DOMAIN tree : tree[p].By = c
              /\ \A k \in DOMAIN cs.vfs :
                   \E p \in DOMAIN tree :
                     /\ k = KeyOf(cs.in, p)
                     /\ tree[p].By = c
                     /\ cs.vfs[k].MContent = tree[p].Content
              /\ cs.compiled # Nil => cs.compiled = Some(cs.vfs)

\* C4 as stated: isolation, and once both calls have returned neither call's
\* temporary directory exists.
IsolationAndNoLeftover ==
  /\ WorkspacesApart
  /\ calls["a"].in # calls["b"].in /\ AllDone => \A c \in Calls : ~Owns(c)

\* C4, amended: isolation, and once both calls have returned a call's temporary
\* directory exists only if that call's removal failed, and that call returned a
\* non-nil error.
IsolationUnlessRemovalFails ==
  /\ WorkspacesApart
  /\ calls["a"].in # calls["b"].in /\ AllDone =>
       \A c \in Calls :
         Owns(c) => calls[c].failures # <<>>
                    /\ calls[c].failures[Len(calls[c].failures)] = "removeall"
                    /\ calls[c].err # ""

BothReturnedOneLeftover ==
  /\ calls["a"].in # calls["b"].in
  /\ AllDone
  /\ Owns("a") /\ calls["a"].err = "removeall"
  /\ ~Owns("b") /\ calls["b"].compiled # Nil /\ calls["b"].err = ""
  /\ DOMAIN calls["b"].compiled[1] # {}

\* the epoch seconds of the two non-zero clamp times, written out
EpochOf(t) ==
  CASE t = UnixEpoch -> "0"
    [] t = [day |-> 719163, sec |-> 1, nsec |-> 5] -> "86401"

\* C5: a process about to start or started with a zero ClampTime has no environment of its own and
\* runs in the inherited one, with neither variable set; with a non-zero ClampTime
\* its environment is the inherited one followed by PYTHONHASHSEED=0 and
\* SOURCE_DATE_EPOCH=<ClampTime in Unix seconds>.
ClampToggling ==
  \A c \in Calls :
    LET cs == calls[c] IN
    cs.pc = "run" \/ (cs.launches = 1 /\ cs.pc # "done") =>
      IF cs.clampTime = ZeroTime
        THEN /\ cs.cmd.Env = Nil
             /\ ProcessEnv(cs.cmd) = Environ
             /\ Getenv(ProcessEnv(cs.cmd), "PYTHONHASHSEED") = ""
             /\ Getenv(ProcessEnv(cs.cmd), "SOURCE_DATE_EPOCH") = ""
        ELSE /\ cs.cmd.Env = Some(Environ \o <<"PYTHONHASHSEED=0",
                                   "SOURCE_DATE_EPOCH=" \o EpochOf(cs.clampTime)>>)
             /\ Getenv(ProcessEnv(cs.cmd), "PYTHONHASHSEED") = "0"
             /\ Getenv(ProcessEnv(cs.cmd), "SOURCE_DATE_EPOCH") = EpochOf(cs.clampTime)

LaunchedClamped ==
  \E c \in Calls :
    /\ calls[c].pc = "walkstart"
    /\ calls[c].launches = 1
    /\ calls[c].clampTime = [day |-> 719163, sec |-> 1, nsec |-> 5]
    /\ Getenv(ProcessEnv(calls[c].cmd), "SOURCE_DATE_EPOCH") = "86401"

\* C6: when the walk has ended without error, the result map holds an entry for a
\* workspace entry exactly when the entry is not the root and is a directory or has
\* a name ending in .pyc; a directory's entry has no content; the copied input file
\* and every other unsuffixed file has no entry; the map holds nothing else.
Filtering ==
  \A c \in Calls :
    LET cs == calls[c] IN
    cs.pc = "return" /\ cs.compiled # Nil =>
      LET tree == fs[cs.tmpdir]
          m == cs.compiled[1]
      IN /\ cs.err = ""
         /\ \A p \in DOMAIN tree : KeyOf(cs.in, p) \in DOMAIN m <=> p \in Kept(tree)
         /\ \A p \in Kept(tree) :
              /\ m[KeyOf(cs.in, p)].FileInfo.IsDir = tree[p].IsDir
              /\ tree[p].IsDir => m[KeyOf(cs.in, p)].MContent = ""
         /\ BaseName(cs.in) \in DOMAIN tree
         /\ KeyOf(cs.in, BaseName(cs.in)) \notin DOMAIN m
         /\ DOMAIN m = { KeyOf(cs.in, p) : p \in Kept(tree) }

StrayFileLeftOut ==
  \E c \in Calls :
    /\ calls[c].pc = "return" /\ calls[c].compiled # Nil
    /\ "compile.log" \in DOMAIN fs[calls[c].tmpdir]
    /\ DOMAIN calls[c].compiled[1] = {"pkg/mod.pyc"}

\* C7: every key of a result map is the virtual directory of the source slash-joined
\* with the relative path of the workspace entry it stands for, and is the full name
\* stored in its value; the keys of pkg/mod.py start with pkg/; distinct workspace
\* entries have distinct keys.
PathTranslation ==
  \A c \in Calls :
    LET cs == calls[c] IN
    HasResult(cs) =>
      LET m == cs.compiled[1] IN
      /\ \A k \in DOMAIN m :
           /\ m[k].MFullName = k
           /\ cs.in.FullName = "pkg/mod.py" => HasPrefix(k, "pkg/")
      /\ cs.pc = "return" =>
           LET tree == fs[cs.tmpdir] IN
           /\ \A p \in Kept(tree) :
                /\ KeyOf(cs.in, p) \in DOMAIN m
                /\ m[KeyOf(cs.in, p)].FileInfo = Info(p, tree[p])
           /\ \A k \in DOMAIN m : \E p \in Kept(tree) : k = KeyOf(cs.in, p)
           /\ Cardinality(DOMAIN m) = Cardinality(Kept(tree))

NestedKeyTranslated ==
  \E c \in Calls :
    /\ calls[c].pc = "return" /\ calls[c].compiled # Nil
    /\ DOMAIN calls[c].compiled[1] =
         {"pkg/__pycache__", "pkg/__pycache__/mod.cpython-39.pyc"}

\* C8: two calls that share nothing, made with the same source and the same non-zero
\* ClampTime, that both return a result return the same result: the same keys, and
\* for every key the same content and the same metadata.
Determinism ==
  /\ spare < AppendLen
  /\ calls["a"].in = calls["b"].in
  /\ calls["a"].clampTime = calls["b"].clampTime
  /\ ~IsZero(calls["a"].clampTime)
  /\ \A c \in Calls : calls[c].pc = "done" /\ calls[c].compiled # Nil
  => calls["a"].compiled = calls["b"].compiled

\* C9: the process of every call is started with the program, the fixed arguments,
\* -p, the virtual directory of the call's own source rooted at /, and the base name
\* of the call's own source, under which the input lies in the call's workspace,
\* which is the working directory.
OwnArguments ==
  \A c \in Calls :
    LET cs == calls[c] IN
    cs.pc = "run" =>
      /\ cs.cmd.Args = <<Exe>> \o FixedArgs \o
                       <<"-p", "/" \o VirtualDir(cs.in), BaseName(cs.in)>>
      /\ cs.cmd.Dir = cs.tmpdir
      /\ BaseName(cs.in) \in DOMAIN fs[cs.tmpdir]

\* the phases a returned call must have gone through, given its first failure
PhasesFor(cs) ==
  LET upto == IF cs.failures = <<>> \/ cs.failures[1] = "removeall"
                THEN 3 ELSE PhaseOf(cs.failures[1])
  IN SubSeq(Phases, 1, upto) \o (IF cs.tmpdir # "" THEN <<"teardown">> ELSE <<>>)

PhaseIndex(ph) == CHOOSE i \in 1..Len(Phases) : Phases[i] = ph

\* C10: a call goes through setup, invocation, collection and teardown in that
\* order, each at most once; the process is started at most once, from a state in
\* which the input file lies in the workspace with the source's content and with
\* both times equal to the source's modification time; the walk runs only after a
\* run without failure; a failed phase is followed by teardown alone; and when
\* the removal is still to come every file entry of the result holds the content
\* of its workspace file.
PhaseOrder ==
  \A c \in Calls :
    LET cs == calls[c] IN
    /\ \A i, j \in 1..Len(cs.phases) :
         i < j => PhaseIndex(cs.phases[i]) < PhaseIndex(cs.phases[j])
    /\ cs.launches <= 1
    /\ cs.launches = 1 <=> "invocation" \in { cs.phases[i] : i \in 1..Len(cs.phases) }
    /\ cs.pc \in {"append", "command", "run"} =>
         /\ cs.launches = 0 /\ cs.failures = <<>>
         /\ BaseName(cs.in) \in DOMAIN fs[cs.tmpdir]
         /\ LET f == fs[cs.tmpdir][BaseName(cs.in)]
            IN f.Content = cs.in.Content /\ f.ATime = cs.in.ModTime
               /\ f.MTime = cs.in.ModTime
    /\ cs.pc \in {"walkstart", "walk"} => cs.launches = 1 /\ cs.failures = <<>>
    /\ cs.pc = "return" => "teardown" \notin { cs.phases[i] : i \in 1..Len(cs.phases) }
    /\ cs.pc = "return" /\ cs.compiled # Nil =>
         /\ cs.walk = <<>>
         /\ \A p \in Kept(fs[cs.tmpdir]) :
              ~fs[cs.tmpdir][p].IsDir =>
                 cs.compiled[1][KeyOf(cs.in, p)].MContent = fs[cs.tmpdir][p].Content
    /\ cs.pc = "done" => cs.phases = PhasesFor(cs)

CollectedThenRemoved ==
  \E c \in Calls :
    /\ calls[c].pc = "done"
    /\ calls[c].phases = Phases
    /\ calls[c].err = ""
    /\ \E k \in DOMAIN calls[c].compiled[1] : calls[c].compiled[1][k].MContent # ""

====
